---- MODULE Spec2Model ----
(***************************************************************************)
(* A model of bokeh-models (src/bokeh-models/src/lib.rs): the              *)
(* ColumnDataSource, the Plot and Document builders, their consuming       *)
(* validate() operations, the ToBokeh representations and to_bokeh_json.   *)
(*                                                                         *)
(* Rust values are modelled as follows.                                    *)
(*   Option<T>      the sequences <<>> (None) and <<x>> (Some(x))          *)
(*   Result<T>      [ok |-> TRUE, val |-> v] and [ok |-> FALSE, err |-> e] *)
(*   &'s ColumnDataSource   the identity (SourceIds) of the source         *)
(*   Vec<T>         a sequence;  HashMap<K, V>  a function on its key set  *)
(*   serde_json::Value      a record tagged by its JSON type (field t)     *)
(* Fields whose names start with h_ are history variables: they record     *)
(* the calls made so far and are never read by a modelled operation.       *)
(*   Plot.h_glyphCalls    the number of add_glyph calls on the builder     *)
(*   Plot.h_lastSource    the source passed to the latest add_glyph        *)
(*   Plot.h_sourcesSeen   the sources passed to all add_glyph calls        *)
(*   Plot.h_glyphsAdded   the glyphs passed to add_glyph, in call order    *)
(*   Plot.h_toolsAdded    the tools passed to add_tool, in call order      *)
(*   Plot.h_layoutsAdded  per Position, the layout of the latest           *)
(*                        add_layout at that Position                      *)
(*   Document.h_lastRoot  the Plot passed to the latest add_root           *)
(*   Document.h_prevValid whether the root that the latest add_root        *)
(*                        replaced had seen an add_glyph call              *)
(*   ColumnDataSource.h_added  per key, the values of the latest add       *)
(*   wire.h_first         per title, the output of the first to_bokeh_json *)
(*                        of the held ValidatedDocument with that title    *)
(* A result variable keeps, in its field of, the builder that validate()   *)
(* consumed; value keeps the previous output of the same kind in prev.     *)
(***************************************************************************)
EXTENDS Integers, Sequences, FiniteSets, TLC

\* ------------------------------------------------------------------ bounds

\* At most MaxItems glyphs, tools, layouts, set borders and columns exist at
\* one time, over all live builders, validated values and sources.
MaxItems == 3

\* ----------------------------------------------------------------- domains

SourceIds == {1, 2}
Keys == {"x", "y"}
Vals == {<<1, 2, 3>>, <<4, 5>>}
MinBorders == {10}
Titles == {"demo", ""}

None == <<>>
Some(x) == <<x>>
Ok(v) == [ok |-> TRUE, val |-> v]
Err(e) == [ok |-> FALSE, err |-> e]

\* format_err! messages of Plot::validate and Document::validate
MissingDataSource == "no ColumnDataSource found"
MissingPlot == "document requires a plot"

Position == {"Below", "Left", "Right", "Above"}
Layout == {"LinearAxis"}
Tool == {"PanTool", "WheelZoomTool"}

\* Circle::new() is Circle::default(): every field None
Circle_new == [x |-> None, y |-> None, fill_color |-> None, size |-> None, line_color |-> None]
\* a Circle with every column name field set
CircleBound ==
    [Circle_new EXCEPT !.x = Some("x"), !.y = Some("y"),
                       !.fill_color = Some("fill"), !.line_color = Some("line")]
Circles == {Circle_new, CircleBound}
\* From<Circle> for Glyph
GlyphFrom(c) == [kind |-> "Circle", circle |-> c]
Glyph == {GlyphFrom(c) : c \in Circles}

\* ------------------------------------------------------ serde_json::Value

JNull == [t |-> "null"]
JString(s) == [t |-> "string", s |-> s]
JArray(a) == [t |-> "array", a |-> a]
JObject(o) == [t |-> "object", o |-> o]
EmptyMap == <<>>

IsObject(j) == j.t = "object"
IsArray(j) == j.t = "array"
IsString(j) == j.t = "string"
ObjKeys(j) == DOMAIN j.o

\* ------------------------------------------------------------------ state

VARIABLES sources, plot, plotResult, doc, docResult, wire, value

vars == <<sources, plot, plotResult, doc, docResult, wire, value>>

\* ------------------------------------------------------- ColumnDataSource

ColumnDataSource_new == [columns |-> EmptyMap, h_added |-> EmptyMap]

\* The history of add calls after one more call
ColumnsAdded(src, key, values) ==
    [k \in DOMAIN src.h_added \cup {key} |->
        IF k = key THEN values ELSE src.h_added[k]]

\* mutant: a key that is present keeps its values (entry().or_insert())
ColumnDataSource_add_KeepsFirst(src, key, values) ==
    [columns |-> [k \in DOMAIN src.columns \cup {key} |->
                     IF k \in DOMAIN src.columns THEN src.columns[k] ELSE values],
     h_added |-> ColumnsAdded(src, key, values)]

ColumnDataSource_add(src, key, values) ==
    [columns |-> [k \in DOMAIN src.columns \cup {key} |->
                     IF k = key THEN values ELSE src.columns[k]],
     h_added |-> ColumnsAdded(src, key, values)]

ColumnDataSource_as_bokeh_value(src) == JNull

\* ------------------------------------------------------------------- Plot

Plot_new ==
    [min_border |-> None, source |-> None, glyphs |-> <<>>,
     layouts |-> EmptyMap, tools |-> <<>>,
     h_glyphCalls |-> 0, h_lastSource |-> None, h_sourcesSeen |-> {},
     h_glyphsAdded |-> <<>>, h_toolsAdded |-> <<>>, h_layoutsAdded |-> EmptyMap]

\* mutant: the source is bound but the glyph is not pushed
Plot_add_glyph_NoPush(p, s, g) ==
    [p EXCEPT !.source = Some(s),
              !.h_glyphCalls = p.h_glyphCalls + 1, !.h_lastSource = Some(s),
              !.h_sourcesSeen = p.h_sourcesSeen \cup {s},
              !.h_glyphsAdded = Append(p.h_glyphsAdded, g)]

\* mutant: the first source bound stays bound
Plot_add_glyph_FirstWins(p, s, g) ==
    [p EXCEPT !.source = IF p.source = None THEN Some(s) ELSE p.source,
              !.glyphs = Append(p.glyphs, g),
              !.h_glyphCalls = p.h_glyphCalls + 1, !.h_lastSource = Some(s),
              !.h_sourcesSeen = p.h_sourcesSeen \cup {s},
              !.h_glyphsAdded = Append(p.h_glyphsAdded, g)]

Plot_add_glyph(p, s, g) ==
    [p EXCEPT !.source = Some(s), !.glyphs = Append(p.glyphs, g),
              !.h_glyphCalls = p.h_glyphCalls + 1, !.h_lastSource = Some(s),
              !.h_sourcesSeen = p.h_sourcesSeen \cup {s},
              !.h_glyphsAdded = Append(p.h_glyphsAdded, g)]

\* The history of add_layout calls after one more call
LayoutsAdded(p, position, layout) ==
    [q \in DOMAIN p.h_layoutsAdded \cup {position} |->
        IF q = position THEN layout ELSE p.h_layoutsAdded[q]]

\* mutant: the map is rebuilt from the new entry alone
Plot_add_layout_OnlyNew(p, position, layout) ==
    [p EXCEPT !.layouts = [q \in {position} |-> layout],
              !.h_layoutsAdded = LayoutsAdded(p, position, layout)]

Plot_add_layout(p, position, layout) ==
    [p EXCEPT !.layouts = [q \in DOMAIN p.layouts \cup {position} |->
                              IF q = position THEN layout ELSE p.layouts[q]],
              !.h_layoutsAdded = LayoutsAdded(p, position, layout)]

\* mutant: the tool list is assigned, not pushed to
Plot_add_tool_Assigns(p, tool) ==
    [p EXCEPT !.tools = <<tool>>,
              !.h_toolsAdded = Append(p.h_toolsAdded, tool)]

Plot_add_tool(p, tool) ==
    [p EXCEPT !.tools = Append(p.tools, tool),
              !.h_toolsAdded = Append(p.h_toolsAdded, tool)]

\* The column names a glyph refers to
GlyphColumns(g) ==
    {g.circle.x[i] : i \in DOMAIN g.circle.x}
    \cup {g.circle.y[i] : i \in DOMAIN g.circle.y}
    \cup {g.circle.fill_color[i] : i \in DOMAIN g.circle.fill_color}
    \cup {g.circle.line_color[i] : i \in DOMAIN g.circle.line_color}

\* mutant: validation also demands that every column a glyph names exists
Plot_validate_ChecksColumns(p) ==
    IF p.source = None
    THEN Err(MissingDataSource)
    ELSE IF \E i \in DOMAIN p.glyphs :
               ~(GlyphColumns(p.glyphs[i]) \subseteq DOMAIN sources[p.source[1]].columns)
    THEN Err("column not found")
    ELSE Ok([min_border |-> p.min_border, source |-> p.source[1],
             glyphs |-> p.glyphs, layouts |-> p.layouts, tools |-> p.tools])

\* mutant: the tools are not carried over
Plot_validate_DropsTools(p) ==
    IF p.source = None
    THEN Err(MissingDataSource)
    ELSE Ok([min_border |-> p.min_border, source |-> p.source[1],
             glyphs |-> p.glyphs, layouts |-> p.layouts, tools |-> <<>>])

\* mutant: the two format_err! messages swapped
Plot_validate_WrongError(p) ==
    IF p.source = None
    THEN Err(MissingPlot)
    ELSE Ok([min_border |-> p.min_border, source |-> p.source[1],
             glyphs |-> p.glyphs, layouts |-> p.layouts, tools |-> p.tools])

Plot_validate(p) ==
    IF p.source = None
    THEN Err(MissingDataSource)
    ELSE Ok([min_border |-> p.min_border, source |-> p.source[1],
             glyphs |-> p.glyphs, layouts |-> p.layouts, tools |-> p.tools])

\* --------------------------------------------------- tickers, formatters

\* mutant: the representation carries an id of its own
BasicTicker_WithId ==
    JObject([attributes |-> JObject(EmptyMap), id |-> JString("1001"),
             type |-> JString("BasicTicker")])

BasicTicker_as_bokeh_value ==
    JObject([attributes |-> JObject(EmptyMap), type |-> JString("BasicTicker")])

BasicTickFormatter_as_bokeh_value ==
    JObject([attributes |-> JObject(EmptyMap), type |-> JString("BasicTickFormatter")])

\* --------------------------------------------------------------- Document

Document_new == [plot |-> None, h_lastRoot |-> None, h_prevValid |-> None]

\* mutant: the first root stays the root
Document_add_root_FirstWins(d, p) ==
    [plot |-> IF d.plot = None THEN Some(p) ELSE d.plot,
     h_lastRoot |-> Some(p),
     h_prevValid |-> IF d.h_lastRoot = None THEN None
                     ELSE Some(d.h_lastRoot[1].h_glyphCalls > 0)]

Document_add_root(d, p) ==
    [plot |-> Some(p),
     h_lastRoot |-> Some(p),
     h_prevValid |-> IF d.h_lastRoot = None THEN None
                     ELSE Some(d.h_lastRoot[1].h_glyphCalls > 0)]

\* mutant: every failure reported as a missing plot
Document_validate_OneError(d) ==
    IF d.plot = None
    THEN Err(MissingPlot)
    ELSE LET r == Plot_validate(d.plot[1])
         IN IF r.ok THEN Ok([plot |-> r.val]) ELSE Err(MissingPlot)

Document_validate(d) ==
    IF d.plot = None
    THEN Err(MissingPlot)
    ELSE LET r == Plot_validate(d.plot[1])
         IN IF r.ok THEN Ok([plot |-> r.val]) ELSE Err(r.err)

\* mutant: the source is pushed once per glyph that uses it
ValidatedDocument_references_PerGlyph(vd) ==
    [i \in 1..Len(vd.plot.glyphs) |->
        ColumnDataSource_as_bokeh_value(sources[vd.plot.source])]

\* mutant: the walk also pushes an entry for every tool
ValidatedDocument_references_WithTools(vd) ==
    <<ColumnDataSource_as_bokeh_value(sources[vd.plot.source])>>
        \o [i \in 1..Len(vd.plot.tools) |-> JObject([type |-> JString(vd.plot.tools[i])])]

ValidatedDocument_references(vd) ==
    <<ColumnDataSource_as_bokeh_value(sources[vd.plot.source])>>

\* mutant: another protocol version
to_bokeh_json_OtherVersion(vd, title) ==
    Ok(JObject([roots |-> JObject([references |-> JArray(ValidatedDocument_references(vd))]),
                title |-> JString(title),
                version |-> JString("1.0.2")]))

to_bokeh_json(vd, title) ==
    Ok(JObject([roots |-> JObject([references |-> JArray(ValidatedDocument_references(vd))]),
                title |-> JString(title),
                version |-> JString("1.0.3")]))

\* ---------------------------------------------------------------- bounds

PlotItems(p) ==
    Len(p.glyphs) + Len(p.tools) + Cardinality(DOMAIN p.layouts) + Len(p.min_border)
OptPlotItems(o) == IF o = None THEN 0 ELSE PlotItems(o[1])
DocItems(d) == OptPlotItems(d.plot)
RECURSIVE SumColumns(_)
SumColumns(S) ==
    IF S = {} THEN 0
    ELSE LET s == CHOOSE x \in S : TRUE
         IN Cardinality(DOMAIN sources[s].columns) + SumColumns(S \ {s})
TotalItems ==
    OptPlotItems(plot)
    + (IF plotResult = None THEN 0 ELSE PlotItems(plotResult[1].of))
    + (IF doc = None THEN 0 ELSE DocItems(doc[1]))
    + (IF docResult = None THEN 0 ELSE DocItems(docResult[1].of))
    + SumColumns(SourceIds)
Room == TotalItems < MaxItems

\* The sources a live Plot, Document or validated value holds a &'s reference to
PlotRefs(p) == {p.source[i] : i \in DOMAIN p.source}
OptPlotRefs(o) == IF o = None THEN {} ELSE PlotRefs(o[1])
Borrowed ==
    OptPlotRefs(plot)
    \cup (IF doc = None THEN {} ELSE OptPlotRefs(doc[1].plot))
    \cup (IF plotResult # None /\ plotResult[1].res.ok
          THEN {plotResult[1].res.val.source} ELSE {})
    \cup (IF docResult # None /\ docResult[1].res.ok
          THEN {docResult[1].res.val.plot.source} ELSE {})

\* ---------------------------------------------------------------- actions

Init ==
    /\ sources = [s \in SourceIds |-> ColumnDataSource_new]
    /\ plot = Some(Plot_new)
    /\ plotResult = None
    /\ doc = Some(Document_new)
    /\ docResult = None
    /\ wire = None
    /\ value = None

\* source.add(key, values): needs &mut, so no Plot may hold the source
SourceAdd(s, key, values) ==
    /\ s \notin Borrowed
    /\ key \in DOMAIN sources[s].columns \/ Room
    /\ sources' = [sources EXCEPT ![s] = ColumnDataSource_add(sources[s], key, values)]
    /\ UNCHANGED <<plot, plotResult, doc, docResult, wire, value>>

\* let mut plot = Plot::new();   (what the previous plot left is dropped)
PlotNew ==
    /\ plot' = Some(Plot_new)
    /\ plotResult' = None
    /\ UNCHANGED <<sources, doc, docResult, wire, value>>

\* plot.min_border = b;
SetMinBorder(b) ==
    /\ plot # None
    /\ b = None \/ plot[1].min_border # None \/ Room
    /\ plot' = Some([plot[1] EXCEPT !.min_border = b])
    /\ UNCHANGED <<sources, plotResult, doc, docResult, wire, value>>

AddGlyph(s, g) ==
    /\ plot # None
    /\ Room
    /\ plot' = Some(Plot_add_glyph(plot[1], s, g))
    /\ UNCHANGED <<sources, plotResult, doc, docResult, wire, value>>

AddLayout(position, layout) ==
    /\ plot # None
    /\ position \in DOMAIN plot[1].layouts \/ Room
    /\ plot' = Some(Plot_add_layout(plot[1], position, layout))
    /\ UNCHANGED <<sources, plotResult, doc, docResult, wire, value>>

AddTool(tool) ==
    /\ plot # None
    /\ Room
    /\ plot' = Some(Plot_add_tool(plot[1], tool))
    /\ UNCHANGED <<sources, plotResult, doc, docResult, wire, value>>

\* mutant: validate(&self), the builder stays usable
PlotValidate_KeepsBuilder ==
    /\ plot # None
    /\ plotResult' = Some([of |-> plot[1], res |-> Plot_validate(plot[1])])
    /\ UNCHANGED <<sources, plot, doc, docResult, wire, value>>

\* let r = plot.validate();   (plot is moved)
PlotValidate ==
    /\ plot # None
    /\ plotResult' = Some([of |-> plot[1], res |-> Plot_validate(plot[1])])
    /\ plot' = None
    /\ UNCHANGED <<sources, doc, docResult, wire, value>>

\* let mut doc = Document::new();   (what the previous document left is dropped)
DocNew ==
    /\ doc' = Some(Document_new)
    /\ docResult' = None
    /\ wire' = None
    /\ UNCHANGED <<sources, plot, plotResult, value>>

\* doc.add_root(plot);   (plot is moved)
AddRoot ==
    /\ plot # None
    /\ doc # None
    /\ doc' = Some(Document_add_root(doc[1], plot[1]))
    /\ plot' = None
    /\ UNCHANGED <<sources, plotResult, docResult, wire, value>>

\* let r = doc.validate();   (doc is moved)
DocValidate ==
    /\ doc # None
    /\ docResult' = Some([of |-> doc[1], res |-> Document_validate(doc[1])])
    /\ doc' = None
    /\ wire' = None
    /\ UNCHANGED <<sources, plot, plotResult, value>>

\* The first outputs per title, after one more output
FirstOutputs(title, out) ==
    LET seen == IF wire = None THEN EmptyMap ELSE wire[1].h_first
    IN [u \in DOMAIN seen \cup {title} |-> IF u \in DOMAIN seen THEN seen[u] ELSE out]

\* mutant: the title of the first serialization is cached and used again
ToBokehJson_CachedTitle(title) ==
    /\ docResult # None
    /\ docResult[1].res.ok
    /\ LET used == IF wire = None THEN title ELSE wire[1].res.val.o.title.s
           out == to_bokeh_json(docResult[1].res.val, used)
       IN wire' = Some([title |-> title, res |-> out, h_first |-> FirstOutputs(title, out)])
    /\ UNCHANGED <<sources, plot, plotResult, doc, docResult, value>>

\* let r = to_bokeh_json(&doc, title);
ToBokehJson(title) ==
    /\ docResult # None
    /\ docResult[1].res.ok
    /\ LET out == to_bokeh_json(docResult[1].res.val, title)
       IN wire' = Some([title |-> title, res |-> out, h_first |-> FirstOutputs(title, out)])
    /\ UNCHANGED <<sources, plot, plotResult, doc, docResult, value>>

\* let v = x.as_bokeh_value();  for a ticker, a formatter or a source
PrevValue(kind) ==
    IF value # None /\ value[1].of = kind THEN Some(value[1].res) ELSE None

TickerValue ==
    /\ value' = Some([of |-> "BasicTicker", id |-> 0, src |-> None,
                      res |-> BasicTicker_as_bokeh_value, prev |-> PrevValue("BasicTicker")])
    /\ UNCHANGED <<sources, plot, plotResult, doc, docResult, wire>>

FormatterValue ==
    /\ value' = Some([of |-> "BasicTickFormatter", id |-> 0, src |-> None,
                      res |-> BasicTickFormatter_as_bokeh_value,
                      prev |-> PrevValue("BasicTickFormatter")])
    /\ UNCHANGED <<sources, plot, plotResult, doc, docResult, wire>>

SourceValue(s) ==
    /\ value' = Some([of |-> "ColumnDataSource", id |-> s, src |-> Some(sources[s]),
                      res |-> ColumnDataSource_as_bokeh_value(sources[s]),
                      prev |-> None])
    /\ UNCHANGED <<sources, plot, plotResult, doc, docResult, wire>>

Next ==
    \/ \E s \in SourceIds, k \in Keys, v \in Vals : SourceAdd(s, k, v)
    \/ PlotNew
    \/ \E b \in {None} \cup {Some(m) : m \in MinBorders} : SetMinBorder(b)
    \/ \E s \in SourceIds, g \in Glyph : AddGlyph(s, g)
    \/ \E p \in Position, l \in Layout : AddLayout(p, l)
    \/ \E t \in Tool : AddTool(t)
    \/ PlotValidate
    \/ DocNew
    \/ AddRoot
    \/ DocValidate
    \/ \E t \in Titles : ToBokehJson(t)

Spec == Init /\ [][Next]_vars

\* The ToBokeh representations, of sources in every state add() reaches
NextValue ==
    \/ \E s \in SourceIds, k \in Keys, v \in Vals : SourceAdd(s, k, v)
    \/ TickerValue
    \/ FormatterValue
    \/ \E s \in SourceIds : SourceValue(s)

SpecValue == Init /\ [][NextValue]_vars

\* plot.add_layout(position, layout): a Plot holds at most one layout per
\* Position, so this step needs no bound
AddLayoutAny(position, layout) ==
    /\ plot # None
    /\ plot' = Some(Plot_add_layout(plot[1], position, layout))
    /\ UNCHANGED <<sources, plotResult, doc, docResult, wire, value>>

\* One Plot builder from Plot::new() to validate(), with every Position free
NextPlot ==
    \/ PlotNew
    \/ \E b \in {None} \cup {Some(m) : m \in MinBorders} : SetMinBorder(b)
    \/ \E s \in SourceIds, g \in Glyph : AddGlyph(s, g)
    \/ \E p \in Position, l \in Layout : AddLayoutAny(p, l)
    \/ \E t \in Tool : AddTool(t)
    \/ PlotValidate

SpecPlot == Init /\ [][NextPlot]_vars

\* ----------------------------------------------------------------- claims

IsErr(r, e) == ~r.ok /\ DOMAIN r = {"ok", "err"} /\ r.err = e

\* C1: a Plot builder that saw no add_glyph call, whatever add_layout, add_tool
\* and min_border assignments it saw, fails validate() with MissingDataSource
\* and yields no ValidatedPlot.
C1_NoGlyphFailsMissingDataSource ==
    (plotResult # None /\ plotResult[1].of.h_glyphCalls = 0)
        => IsErr(plotResult[1].res, MissingDataSource)

C1_Witness ==
    /\ plotResult # None
    /\ plotResult[1].of.h_glyphCalls = 0
    /\ plotResult[1].of.tools # <<>>
    /\ DOMAIN plotResult[1].of.layouts # {}
    /\ plotResult[1].of.min_border # None
    /\ ~plotResult[1].res.ok

\* C2: a Plot builder that saw at least one add_glyph call validates, and the
\* ValidatedPlot's source is the source passed to the latest add_glyph.
C2_LastGlyphSourceWins ==
    (plotResult # None /\ plotResult[1].of.h_glyphCalls > 0)
        => /\ plotResult[1].res.ok
           /\ plotResult[1].res.val.source = plotResult[1].of.h_lastSource[1]

C2_Witness ==
    /\ plotResult # None
    /\ plotResult[1].of.h_sourcesSeen = SourceIds
    /\ plotResult[1].of.tools # <<>>
    /\ plotResult[1].res.ok
    /\ plotResult[1].res.val.source = 1

\* C3: Document::validate() fails with MissingPlot when add_root was never
\* called, fails with MissingDataSource when the root has no source bound, and
\* succeeds exactly when a root is set and that Plot validates.
C3_DocumentValidateOutcome ==
    docResult # None =>
        LET d == docResult[1].of
            r == docResult[1].res
        IN /\ d.h_lastRoot = None => IsErr(r, MissingPlot)
           /\ (d.h_lastRoot # None /\ d.h_lastRoot[1].source = None)
                  => IsErr(r, MissingDataSource)
           /\ r.ok <=> (d.h_lastRoot # None /\ d.h_lastRoot[1].source # None)

C3_Witness ==
    /\ docResult # None
    /\ docResult[1].of.h_lastRoot # None
    /\ docResult[1].of.h_lastRoot[1].source = None
    /\ DOMAIN docResult[1].of.h_lastRoot[1].layouts # {}
    /\ docResult[1].res = Err(MissingDataSource)

\* The references array of the latest to_bokeh_json output
WireRefs == wire[1].res.val.o.roots.o.references.a

\* The Plot that was the root of the validated document
WireRoot == docResult[1].of.h_lastRoot[1]

\* C4: the output of to_bokeh_json is an object with exactly the keys roots,
\* title and version, roots.references is an array, and every element of it
\* is an object with the keys id, attributes and type.
C4_WireShape ==
    wire # None =>
        LET out == wire[1].res.val
        IN /\ IsObject(out)
           /\ ObjKeys(out) = {"roots", "title", "version"}
           /\ IsObject(out.o.roots)
           /\ "references" \in ObjKeys(out.o.roots)
           /\ IsArray(out.o.roots.o.references)
           /\ \A i \in DOMAIN WireRefs :
                 /\ IsObject(WireRefs[i])
                 /\ {"id", "attributes", "type"} \subseteq ObjKeys(WireRefs[i])

C6_TickerValueExact ==
    value # None =>
        LET v == value[1]
        IN /\ v.of = "BasicTicker" =>
                /\ v.res = [t |-> "object",
                            o |-> [attributes |-> [t |-> "object", o |-> <<>>],
                                   type |-> [t |-> "string", s |-> "BasicTicker"]]]
                /\ "id" \notin ObjKeys(v.res)
           /\ v.of = "BasicTickFormatter" =>
                /\ v.res = [t |-> "object",
                            o |-> [attributes |-> [t |-> "object", o |-> <<>>],
                                   type |-> [t |-> "string", s |-> "BasicTickFormatter"]]]
                /\ "id" \notin ObjKeys(v.res)
           /\ (v.of \in {"BasicTicker", "BasicTickFormatter"} /\ v.prev # None)
                => v.prev[1] = v.res

C6_Witness ==
    /\ value # None
    /\ value[1].of = "BasicTicker"
    /\ value[1].prev # None
    /\ ObjKeys(value[1].res) = {"attributes", "type"}

\* C7: to_bokeh_json(doc, t) returns Ok, and its output has title t and
\* version "1.0.3".
C7_WireTitleVersion ==
    wire # None =>
        /\ wire[1].res.ok
        /\ IsObject(wire[1].res.val)
        /\ wire[1].res.val.o.title = JString(wire[1].title)
        /\ wire[1].res.val.o.version = JString("1.0.3")

C7_Witness ==
    /\ wire # None
    /\ wire[1].title = "demo"
    /\ wire[1].res.ok
    /\ wire[1].res.val.o.title = JString("demo")

\* C8: a source passed to several add_glyph calls of the root Plot appears
\* exactly once in roots.references.
C8_SharedSourceOnce ==
    (wire # None /\ WireRoot.h_glyphCalls >= 2
               /\ Cardinality(WireRoot.h_sourcesSeen) = 1)
        => \A s \in WireRoot.h_sourcesSeen :
              Cardinality({i \in DOMAIN WireRefs :
                  WireRefs[i] = ColumnDataSource_as_bokeh_value(sources[s])}) = 1

C8_Witness ==
    /\ wire # None
    /\ WireRoot.h_glyphCalls >= 2
    /\ WireRoot.h_sourcesSeen = {2}
    /\ Len(WireRefs) = 1

\* C9: Document::validate() is decided by the Plot of the latest add_root
\* alone: MissingDataSource when that Plot saw no add_glyph, and otherwise a
\* ValidatedDocument that holds that Plot's fields and nothing else.
C9_LastRootWins ==
    (docResult # None /\ docResult[1].of.h_lastRoot # None) =>
        LET last == docResult[1].of.h_lastRoot[1]
            r == docResult[1].res
        IN /\ last.h_glyphCalls = 0 => IsErr(r, MissingDataSource)
           /\ last.h_glyphCalls > 0 =>
                /\ r.ok
                /\ r.val = [plot |-> [min_border |-> last.min_border,
                                      source |-> last.h_lastSource[1],
                                      glyphs |-> last.glyphs,
                                      layouts |-> last.layouts,
                                      tools |-> last.tools]]

\* the latest root is invalid and replaced a valid one
C9_Witness ==
    /\ docResult # None
    /\ docResult[1].of.h_prevValid = Some(TRUE)
    /\ docResult[1].of.h_lastRoot[1].h_glyphCalls = 0
    /\ ~docResult[1].res.ok

\* the latest root is valid and replaced an invalid one
C9_WitnessValidLast ==
    /\ docResult # None
    /\ docResult[1].of.h_prevValid = Some(FALSE)
    /\ docResult[1].of.h_lastRoot[1].h_glyphCalls > 0
    /\ docResult[1].res.ok

C11_PlotBuilderStep ==
    \/ \E s \in SourceIds, g \in Glyph : AddGlyph(s, g)
    \/ \E p \in Position, l \in Layout : AddLayout(p, l)
    \/ \E t \in Tool : AddTool(t)
    \/ \E b \in {None} \cup {Some(m) : m \in MinBorders} : SetMinBorder(b)
    \/ PlotValidate
    \/ AddRoot

CarriedOver(vp, b) ==
    /\ vp.min_border = b.min_border
    /\ vp.glyphs = b.h_glyphsAdded
    /\ vp.layouts = b.h_layoutsAdded
    /\ vp.tools = b.h_toolsAdded

C12_ValidateCarriesFields ==
    /\ (plotResult # None /\ plotResult[1].res.ok)
          => CarriedOver(plotResult[1].res.val, plotResult[1].of)
    /\ (docResult # None /\ docResult[1].res.ok)
          => /\ CarriedOver(docResult[1].res.val.plot, docResult[1].of.h_lastRoot[1])
             /\ DOMAIN docResult[1].res.val = {"plot"}

C12_Witness ==
    /\ plotResult # None
    /\ plotResult[1].res.ok
    /\ plotResult[1].of.h_sourcesSeen = SourceIds
    /\ plotResult[1].res.val.glyphs = <<GlyphFrom(CircleBound), GlyphFrom(Circle_new)>>
    /\ plotResult[1].res.val.min_border = Some(10)

\* C13: the layout map holds, for each Position named by an add_layout call,
\* the layout of the latest such call, and no entry for any other Position;
\* it never has more than four entries, also after an add_layout at a
\* Position that already had a layout.
C13_LayoutsLatestPerPosition ==
    plot # None =>
        LET p == plot[1]
        IN /\ DOMAIN p.layouts = DOMAIN p.h_layoutsAdded
           /\ \A q \in DOMAIN p.layouts : p.layouts[q] = p.h_layoutsAdded[q]
           /\ DOMAIN p.layouts \subseteq Position
           /\ Cardinality(DOMAIN p.layouts) <= 4
           /\ \A q \in DOMAIN p.layouts, l \in Layout :
                 LET after == Plot_add_layout(p, q, l)
                 IN /\ DOMAIN after.layouts = DOMAIN p.layouts
                    /\ after.layouts[q] = l
                    /\ \A o \in DOMAIN p.layouts \ {q} : after.layouts[o] = p.layouts[o]

\* all four Positions hold a layout, and one more add_layout leaves four
C13_Witness ==
    /\ plot # None
    /\ DOMAIN plot[1].layouts = Position
    /\ Cardinality(DOMAIN plot[1].layouts) = 4
    /\ Cardinality(DOMAIN Plot_add_layout(plot[1], "Below", "LinearAxis").layouts) = 4

\* C14: Plot::validate() looks only at whether a source is bound. A Plot that
\* saw an add_glyph call validates also when a Circle names columns the bound
\* source does not have, when the source has no columns, and when the Plot
\* has neither layouts nor tools.
C14_NamesMissingColumn(b) ==
    \E i \in DOMAIN b.h_glyphsAdded :
        ~(GlyphColumns(b.h_glyphsAdded[i])
             \subseteq DOMAIN sources[b.h_lastSource[1]].columns)

C14_ValidateOnlyNeedsSource ==
    (plotResult # None /\ plotResult[1].of.h_glyphCalls > 0) =>
        LET b == plotResult[1].of
        IN (\/ C14_NamesMissingColumn(b)
            \/ DOMAIN sources[b.h_lastSource[1]].columns = {}
            \/ (b.h_toolsAdded = <<>> /\ DOMAIN b.h_layoutsAdded = {}))
           => (plotResult[1].res.ok /\ DOMAIN plotResult[1].res = {"ok", "val"})

\* the Circle names x, y, fill and line; the bound source has x and y only;
\* the Plot has no layouts and no tools
C14_Witness ==
    /\ plotResult # None
    /\ plotResult[1].res.ok
    /\ plotResult[1].of.h_glyphsAdded = <<GlyphFrom(CircleBound)>>
    /\ GlyphColumns(GlyphFrom(CircleBound)) = {"x", "y", "fill", "line"}
    /\ DOMAIN sources[plotResult[1].res.val.source].columns = {"x", "y"}
    /\ plotResult[1].res.val.tools = <<>>
    /\ DOMAIN plotResult[1].res.val.layouts = {}

\* the bound source has no columns at all
C14_WitnessEmptySource ==
    /\ plotResult # None
    /\ plotResult[1].res.ok
    /\ plotResult[1].of.h_glyphsAdded = <<GlyphFrom(CircleBound)>>
    /\ DOMAIN sources[plotResult[1].res.val.source].columns = {}
    /\ plotResult[1].res.val.tools # <<>>

\* C15: each Plot builder operation changes its own field only. add_tool
\* appends one tool and leaves source, glyphs, layouts and min_border alone;
\* add_layout changes the entry of its Position only and leaves source,
\* glyphs, tools and min_border alone; add_glyph appends one glyph, rebinds
\* source and leaves layouts, tools and min_border alone; no builder
\* operation removes a glyph or a tool.
IsPrefix(a, b) == Len(a) <= Len(b) /\ \A i \in DOMAIN a : a[i] = b[i]

C15_AddToolFrame(t) ==
    /\ plot'[1].tools = Append(plot[1].tools, t)
    /\ plot'[1].source = plot[1].source
    /\ plot'[1].glyphs = plot[1].glyphs
    /\ plot'[1].layouts = plot[1].layouts
    /\ plot'[1].min_border = plot[1].min_border

C15_AddLayoutFrame(pos, l) ==
    /\ DOMAIN plot'[1].layouts = DOMAIN plot[1].layouts \cup {pos}
    /\ plot'[1].layouts[pos] = l
    /\ \A q \in DOMAIN plot[1].layouts \ {pos} : plot'[1].layouts[q] = plot[1].layouts[q]
    /\ plot'[1].source = plot[1].source
    /\ plot'[1].glyphs = plot[1].glyphs
    /\ plot'[1].tools = plot[1].tools
    /\ plot'[1].min_border = plot[1].min_border

C15_AddGlyphFrame(s, g) ==
    /\ plot'[1].glyphs = Append(plot[1].glyphs, g)
    /\ plot'[1].source = Some(s)
    /\ plot'[1].layouts = plot[1].layouts
    /\ plot'[1].tools = plot[1].tools
    /\ plot'[1].min_border = plot[1].min_border

C15_BuilderStep ==
    \/ \E s \in SourceIds, g \in Glyph : AddGlyph(s, g)
    \/ \E p \in Position, l \in Layout : AddLayoutAny(p, l)
    \/ \E t \in Tool : AddTool(t)
    \/ \E b \in {None} \cup {Some(m) : m \in MinBorders} : SetMinBorder(b)

C15_BuilderFrames ==
    [][/\ \A t \in Tool : AddTool(t) => C15_AddToolFrame(t)
       /\ \A pos \in Position, l \in Layout :
             AddLayoutAny(pos, l) => C15_AddLayoutFrame(pos, l)
       /\ \A s \in SourceIds, g \in Glyph : AddGlyph(s, g) => C15_AddGlyphFrame(s, g)
       /\ C15_BuilderStep => /\ IsPrefix(plot[1].glyphs, plot'[1].glyphs)
                             /\ IsPrefix(plot[1].tools, plot'[1].tools)]_vars

C15_Witness ==
    /\ plot # None
    /\ Len(plot[1].tools) = 2
    /\ Len(plot[1].glyphs) = 1
    /\ Cardinality(DOMAIN plot[1].layouts) = 2
    /\ plot[1].h_toolsAdded = plot[1].tools

\* C16: a source holds one column per distinct key passed to add, with the
\* values of the latest add for that key; add has no failing outcome, and
\* columns of different lengths stand side by side.
C16_ColumnsLatestPerKey ==
    \A s \in SourceIds :
        LET src == sources[s]
        IN /\ DOMAIN src.columns = DOMAIN src.h_added
           /\ \A k \in DOMAIN src.columns : src.columns[k] = src.h_added[k]
           /\ \A k \in Keys, v \in Vals :
                 LET after == ColumnDataSource_add(src, k, v)
                 IN /\ DOMAIN after = {"columns", "h_added"}
                    /\ DOMAIN after.columns = DOMAIN src.columns \cup {k}
                    /\ after.columns[k] = v
                    /\ \A o \in DOMAIN src.columns \ {k} :
                          after.columns[o] = src.columns[o]

\* source 1 held x = [1,2,3] when it was last represented; x was added again
\* since, and y has another length
C16_Witness ==
    /\ value # None
    /\ value[1].of = "ColumnDataSource"
    /\ value[1].id = 1
    /\ "x" \in DOMAIN value[1].src[1].columns
    /\ value[1].src[1].columns["x"] = <<1, 2, 3>>
    /\ DOMAIN sources[1].columns = {"x", "y"}
    /\ sources[1].columns["x"] = <<4, 5>>
    /\ sources[1].columns["y"] = <<1, 2, 3>>

\* C17: in every Plot builder state the source is present exactly when the
\* glyph sequence is not empty; so validate() succeeds exactly when the glyph
\* sequence is not empty, and every ValidatedPlot, also the root of a
\* ValidatedDocument, has a glyph.
C17_SourceBound(p) == (p.source # None) <=> (p.glyphs # <<>>)

C17_SourceIffGlyphs ==
    /\ plot # None => C17_SourceBound(plot[1])
    /\ (doc # None /\ doc[1].plot # None) => C17_SourceBound(doc[1].plot[1])
    /\ plotResult # None =>
          /\ plotResult[1].res.ok <=> (plotResult[1].of.glyphs # <<>>)
          /\ plotResult[1].res.ok => plotResult[1].res.val.glyphs # <<>>
    /\ docResult # None =>
          /\ docResult[1].res.ok <=>
                (docResult[1].of.plot # None /\ docResult[1].of.plot[1].glyphs # <<>>)
          /\ docResult[1].res.ok => docResult[1].res.val.plot.glyphs # <<>>

C17_Witness ==
    /\ plotResult # None
    /\ ~plotResult[1].res.ok
    /\ plotResult[1].of.glyphs = <<>>
    /\ plotResult[1].of.tools # <<>>
    /\ docResult # None
    /\ docResult[1].res.ok
    /\ Len(docResult[1].res.val.plot.glyphs) = 2

\* C18: serialization reads only. A to_bokeh_json step leaves the
\* ValidatedDocument, the sources and the builders as they were, and its
\* output equals the output of the first serialization of the same document
\* with the same title, whatever was serialized in between.
C18_SerializationReadOnly ==
    [][(\E t \in Titles : ToBokehJson(t)) =>
          /\ docResult' = docResult
          /\ sources' = sources
          /\ <<plot, plotResult, doc>>' = <<plot, plotResult, doc>>
          /\ wire'[1].res = wire'[1].h_first[wire'[1].title]
          /\ wire'[1].res = to_bokeh_json(docResult[1].res.val, wire'[1].title)]_vars

\* "demo" was serialized, then "", then "demo" again
C18_Witness ==
    /\ wire # None
    /\ DOMAIN wire[1].h_first = Titles
    /\ wire[1].title = "demo"
    /\ wire[1].h_first["demo"] = wire[1].res
    /\ wire[1].h_first[""] # wire[1].res
    /\ docResult[1].res.val.plot.tools # <<>>

====
